---- MODULE Spec2Model ----
(***************************************************************************)
(* Model of rustful's server instance (src/server/instance.rs): the URI    *)
(* parsers parse_path / parse_fragment / parse_url, the context filter     *)
(* chain modify_context, and the per-connection RequestHandler driven by   *)
(* the transport callbacks on_request, on_request_readable, on_response    *)
(* and on_response_writable.                                               *)
(*                                                                         *)
(* Strings are byte strings: sequences of byte values (47 is '/').         *)
(* Option<T> is a sequence of length at most one: <<>> is None, <<v>> is   *)
(* Some(v), so Some("") = << <<>> >> differs from None = <<>>.             *)
(***************************************************************************)
EXTENDS Integers, Sequences, FiniteSets, TLC

VARIABLES
    config,     \* Arc<Config<R>>: shared, set at construction, read-only
    conns,      \* the RequestHandlers created by ServerInstance::create
    rh,         \* conn -> RequestHandler fields (control, write_method)
    obs,        \* conn -> what the collaborators of that handler observed
    calls,      \* number of transport callbacks delivered so far
    target,     \* parser development: the target handed to the parser
    parsed      \* parser development: Option<ParsedUri>, the parser's result

vars == <<config, conns, rh, obs, calls, target, parsed>>

----------------------------------------------------------------------------
(* Bounds of the model *)

MaxLen == 4         \* longest target string of the parser development
MaxFilters == 2     \* longest context filter chain
MaxCalls == 3       \* transport callbacks delivered to one server

----------------------------------------------------------------------------
(* Option *)

None == <<>>
Some(v) == <<v>>
IsSome(o) == Len(o) = 1
IsNone(o) == Len(o) = 0
Unwrap(o) == o[1]

----------------------------------------------------------------------------
(* Bytes the source names *)

QMARK == 63     \* '?'
HASH == 35      \* '#'
SLASH == 47     \* b'/'

\* "*" as hyper hands it over is RequestUri::Star; the remaining bytes of the
\* model's alphabet: 'a' 97, '%' 37, '2' 50, '3' 51, '=' 61, '&' 38.
Alphabet == {SLASH, QMARK, HASH, 97, 37, 50, 51, 61, 38}

\* str::find(c): the 1-based index of the first occurrence of c, 0 for None.
RECURSIVE find_from(_, _, _)
find_from(s, c, i) ==
    IF i > Len(s) THEN 0
    ELSE IF s[i] = c THEN i
    ELSE find_from(s, c, i + 1)

find_last(s, c) ==
    IF \E i \in 1..Len(s) : s[i] = c
    THEN CHOOSE i \in 1..Len(s) : s[i] = c /\ \A j \in (i+1)..Len(s) : s[j] # c
    ELSE 0

find(s, c) == find_from(s, c, 1)

\* &s[..index] and &s[index+1..] for the 1-based index of the found byte.
Before(s, index) == SubSeq(s, 1, index - 1)
After(s, index) == SubSeq(s, index + 1, Len(s))

----------------------------------------------------------------------------
(* url::percent_encoding *)

\* from_hex: the value of an ASCII hex digit, -1 for None.
from_hex(b) ==
    IF b \in 48..57 THEN b - 48
    ELSE IF b \in 65..70 THEN b - 55
    ELSE IF b \in 97..102 THEN b - 87
    ELSE -1

\* percent_decode_to: "%XY" with two hex digits becomes the byte 16*X+Y,
\* every other byte (an incomplete or non-hex escape included) is copied.
RECURSIVE percent_decode_from(_, _)
percent_decode_from(input, i) ==
    IF i > Len(input) THEN <<>>
    ELSE IF /\ input[i] = 37
            /\ i + 2 <= Len(input)
            /\ from_hex(input[i + 1]) # -1
            /\ from_hex(input[i + 2]) # -1
         THEN <<from_hex(input[i + 1]) * 16 + from_hex(input[i + 2])>>
                  \o percent_decode_from(input, i + 3)
         ELSE <<input[i]>> \o percent_decode_from(input, i + 1)

percent_decode(input) == percent_decode_from(input, 1)

----------------------------------------------------------------------------
(* utils::parse_parameters and Parameters *)

\* slice::split(|b| b == sep): the pieces between separators; the empty
\* slice yields one empty piece.
RECURSIVE split(_, _)
split(s, sep) ==
    LET index == find(s, sep)
    IN IF index = 0 THEN <<s>>
       ELSE <<Before(s, index)>> \o split(After(s, index), sep)

\* Parameters::new(): the empty mapping (a function with empty domain).
Parameters_new == [k \in {} |-> <<>>]

\* Parameters::insert: last write wins per key.
insert(params, key, value) ==
    [k \in DOMAIN params \cup {key} |-> IF k = key THEN value ELSE params[k]]

\* One "key=value" piece: both sides percent-decoded, an absent '=' gives
\* the empty value.
parameter_pair(piece) ==
    LET parts == split(piece, 61)
    IN <<percent_decode(parts[1]),
         IF Len(parts) >= 2 THEN percent_decode(parts[2]) ELSE <<>>>>

RECURSIVE insert_pieces(_, _, _)
insert_pieces(params, pieces, i) ==
    IF i > Len(pieces) THEN params
    ELSE LET kv == parameter_pair(pieces[i])
         IN insert_pieces(insert(params, kv[1], kv[2]), pieces, i + 1)

parse_parameters(source) == insert_pieces(Parameters_new, split(source, 38), 1)

----------------------------------------------------------------------------
(* ParsedUri, parse_path, parse_fragment, parse_url *)

Uri_Path(path) == [kind |-> "Path", path |-> path]
Uri_Asterisk == [kind |-> "Asterisk", path |-> <<>>]

\* Uri::as_path
as_path(uri) == IF uri.kind = "Path" THEN Some(uri.path) ELSE None

ParsedUri(host, uri, query, fragment) ==
    [host |-> host, uri |-> uri, query |-> query, fragment |-> fragment]

\* if path.is_empty() { path.push(b'/') }
push_slash_if_empty(path) == IF Len(path) = 0 THEN <<SLASH>> ELSE path

\* fragment.map(|f| percent_decode(f.as_bytes()).into())
map_decode(fragment) ==
    IF IsSome(fragment) THEN Some(percent_decode(Unwrap(fragment))) ELSE None

parse_fragment_last(path) ==
    LET index == find_last(path, HASH)
    IN IF index # 0
       THEN <<Before(path, index), Some(After(path, index))>>
       ELSE <<path, None>>

parse_fragment(path) ==
    LET index == find(path, HASH)
    IN IF index # 0
       THEN <<Before(path, index), Some(After(path, index))>>
       ELSE <<path, None>>

\* The argument of utils::parse_parameters in parse_path: Some(raw query)
\* on the branch that found a '?', None on the other branch.
raw_query(path) ==
    LET index == find(path, QMARK)
    IN IF index # 0 THEN Some(parse_fragment(After(path, index))[1]) ELSE None

parse_path_keep_empty(path) ==
    LET index == find(path, QMARK)
    IN IF index # 0
       THEN LET qf == parse_fragment(After(path, index))
            IN ParsedUri(None,
                         Uri_Path(percent_decode(Before(path, index))),
                         parse_parameters(qf[1]),
                         map_decode(qf[2]))
       ELSE LET pf == parse_fragment(path)
            IN ParsedUri(None,
                         Uri_Path(percent_decode(pf[1])),
                         Parameters_new,
                         map_decode(pf[2]))

parse_path(path) ==
    LET index == find(path, QMARK)
    IN IF index # 0
       THEN LET qf == parse_fragment(After(path, index))
            IN ParsedUri(None,
                         Uri_Path(push_slash_if_empty(
                                      percent_decode(Before(path, index)))),
                         parse_parameters(qf[1]),
                         map_decode(qf[2]))
       ELSE LET pf == parse_fragment(path)
            IN ParsedUri(None,
                         Uri_Path(push_slash_if_empty(percent_decode(pf[1]))),
                         Parameters_new,
                         map_decode(pf[2]))

\* form_urlencoded: '+' stands for a space.
replace_plus(input) ==
    [i \in 1..Len(input) |-> IF input[i] = 43 THEN 32 ELSE input[i]]

\* U+FFFD REPLACEMENT CHARACTER in UTF-8.
REPLACEMENT == <<239, 191, 189>>

IsCont(bytes, i) == i <= Len(bytes) /\ bytes[i] \in 128..191

\* The second byte a lead byte of a three or four byte sequence admits.
SecondOk(bytes, i) ==
    /\ i + 1 <= Len(bytes)
    /\ bytes[i + 1] \in (IF bytes[i] = 224 THEN 160..191
                         ELSE IF bytes[i] = 237 THEN 128..159
                         ELSE IF bytes[i] = 240 THEN 144..191
                         ELSE IF bytes[i] = 244 THEN 128..143
                         ELSE 128..191)

\* String::from_utf8_lossy: well-formed sequences are kept, every maximal
\* ill-formed run of a sequence becomes one U+FFFD.
RECURSIVE from_utf8_lossy_from(_, _)
from_utf8_lossy_from(bytes, i) ==
    IF i > Len(bytes) THEN <<>>
    ELSE LET b == bytes[i]
         IN IF b < 128
            THEN <<b>> \o from_utf8_lossy_from(bytes, i + 1)
            ELSE IF b \in 194..223
            THEN IF IsCont(bytes, i + 1)
                 THEN <<b, bytes[i + 1]>> \o from_utf8_lossy_from(bytes, i + 2)
                 ELSE REPLACEMENT \o from_utf8_lossy_from(bytes, i + 1)
            ELSE IF b \in 224..239
            THEN IF ~SecondOk(bytes, i)
                 THEN REPLACEMENT \o from_utf8_lossy_from(bytes, i + 1)
                 ELSE IF ~IsCont(bytes, i + 2)
                 THEN REPLACEMENT \o from_utf8_lossy_from(bytes, i + 2)
                 ELSE <<b, bytes[i + 1], bytes[i + 2]>>
                          \o from_utf8_lossy_from(bytes, i + 3)
            ELSE IF b \in 240..244
            THEN IF ~SecondOk(bytes, i)
                 THEN REPLACEMENT \o from_utf8_lossy_from(bytes, i + 1)
                 ELSE IF ~IsCont(bytes, i + 2)
                 THEN REPLACEMENT \o from_utf8_lossy_from(bytes, i + 2)
                 ELSE IF ~IsCont(bytes, i + 3)
                 THEN REPLACEMENT \o from_utf8_lossy_from(bytes, i + 3)
                 ELSE <<b, bytes[i + 1], bytes[i + 2], bytes[i + 3]>>
                          \o from_utf8_lossy_from(bytes, i + 4)
            ELSE REPLACEMENT \o from_utf8_lossy_from(bytes, i + 1)

from_utf8_lossy(bytes) == from_utf8_lossy_from(bytes, 1)

\* One side of a pair as query_pairs hands it out, a String: '+' replaced,
\* percent-decoded, then decoded as UTF-8 lossily.
form_urlencoded_decode(input) ==
    from_utf8_lossy(percent_decode(replace_plus(input)))

\* url::form_urlencoded::parse behind Url::query_pairs: empty pieces are
\* skipped, a piece is cut at its first '=', both sides decoded to Strings.
RECURSIVE form_urlencoded_pieces(_, _, _)
form_urlencoded_pieces(params, pieces, i) ==
    IF i > Len(pieces) THEN params
    ELSE LET piece == pieces[i]
             position == find(piece, 61)
             name == IF position # 0 THEN Before(piece, position) ELSE piece
             value == IF position # 0 THEN After(piece, position) ELSE <<>>
         IN IF Len(piece) = 0
            THEN form_urlencoded_pieces(params, pieces, i + 1)
            ELSE form_urlencoded_pieces(
                     insert(params, form_urlencoded_decode(name),
                            form_urlencoded_decode(value)),
                     pieces, i + 1)

\* url.query_pairs().unwrap_or_default().into_iter().collect()
query_pairs_collect(url) ==
    IF IsSome(url.query)
    THEN form_urlencoded_pieces(Parameters_new, split(Unwrap(url.query), 38), 1)
    ELSE Parameters_new

\* url.path().unwrap_or(&[]): the path components of a relative-scheme URL,
\* none for the others.
url_path(url) == IF url.relative THEN url.path ELSE <<>>

\* for component in ... { path.push(b'/'); percent_decode_to(component, &mut path) }
RECURSIVE push_components(_, _)
push_components(components, i) ==
    IF i > Len(components) THEN <<>>
    ELSE <<SLASH>> \o percent_decode(components[i])
             \o push_components(components, i + 1)

parse_url(url) ==
    ParsedUri(IF url.relative THEN Some(<<url.host, url.port>>) ELSE None,
              Uri_Path(push_slash_if_empty(push_components(url_path(url), 1))),
              query_pairs_collect(url),
              map_decode(url.fragment))

----------------------------------------------------------------------------
(* The Url values handed to parse_url *)

\* Url::parse("http://example.com" ++ s) for a tail s that is empty or
\* begins with '/', '?' or '#': the path runs to the first '?' or '#' and is
\* cut at every '/', the query runs from a '?' to the next '#', the fragment
\* is the rest after the first '#'.
url_tail_path_end(s) ==
    IF \E i \in 1..Len(s) : s[i] \in {QMARK, HASH}
    THEN CHOOSE i \in 1..Len(s) :
             /\ s[i] \in {QMARK, HASH}
             /\ \A j \in 1..(i - 1) : s[j] \notin {QMARK, HASH}
    ELSE Len(s) + 1

Url_parse(s) ==
    LET pend == url_tail_path_end(s)
        pathstr == Before(s, pend)
        rest == After(s, pend)
        hasq == pend <= Len(s) /\ s[pend] = QMARK
        hash == pend <= Len(s) /\ s[pend] = HASH
        qh == find(rest, HASH)
    IN [relative |-> TRUE,
        host |-> "example.com",
        port |-> None,
        path |-> IF Len(pathstr) = 0 THEN << <<>> >>
                 ELSE split(After(pathstr, 1), SLASH),
        query |-> IF hasq
                  THEN Some(IF qh # 0 THEN Before(rest, qh) ELSE rest)
                  ELSE None,
        fragment |-> IF hash THEN Some(rest)
                     ELSE IF hasq /\ qh # 0 THEN Some(After(rest, qh))
                     ELSE None]

\* Url::parse of a URL whose scheme is not relative ("foo:/bar"): no host,
\* no path components.
Url_non_relative ==
    [relative |-> FALSE, host |-> "", port |-> None, path |-> <<>>,
     query |-> None, fragment |-> None]

----------------------------------------------------------------------------
(* Parser development: one target, parsed once *)

RECURSIVE Strings(_)
Strings(n) ==
    IF n = 0 THEN {<<>>}
    ELSE LET shorter == Strings(n - 1)
         IN shorter \cup {Append(s, b) : s \in {t \in shorter : Len(t) = n - 1},
                                      b \in Alphabet}

\* What parse_path is given: any string, it checks nothing about its
\* argument.  What parse_url is given: parsed URLs.
PathTargets == {[form |-> "path", text |-> s] : s \in Strings(MaxLen)}
UrlTargets ==
    {[form |-> "url", text |-> s] :
         s \in {t \in Strings(MaxLen) :
                    Len(t) = 0 \/ t[1] \in {SLASH, QMARK, HASH}}}
    \cup {[form |-> "opaque", text |-> <<>>]}

UrlOf(t) == IF t.form = "url" THEN Url_parse(t.text) ELSE Url_non_relative

NoConfig == [context_filters |-> <<>>, handlers |-> {}, fallback_handler |-> None,
             server |-> "", content_type |-> ""]

InitParse ==
    /\ target \in PathTargets \cup UrlTargets
    /\ parsed = None
    /\ config = NoConfig
    /\ conns = {}
    /\ rh = <<>>
    /\ obs = <<>>
    /\ calls = 0

ParsePath ==
    /\ target.form = "path"
    /\ IsNone(parsed)
    /\ parsed' = Some(parse_path(target.text))
    /\ UNCHANGED <<config, conns, rh, obs, calls, target>>

ParseUrl ==
    /\ target.form \in {"url", "opaque"}
    /\ IsNone(parsed)
    /\ parsed' = Some(parse_url(UrlOf(target)))
    /\ UNCHANGED <<config, conns, rh, obs, calls, target>>

NextParse == ParsePath \/ ParseUrl

SpecParse == InitParse /\ [][NextParse]_vars

----------------------------------------------------------------------------
(* Status codes, signals, headers *)

StatusCode_Ok == 200
StatusCode_NotFound == 404
StatusCode_BadRequest == 400

\* hyper::Next as returned to the transport
Next_read == "read"
Next_write == "write"
Next_end == "end"
Signals == {Next_read, Next_write, Next_end}

\* Headers::new() and Headers::set / extend: a mapping from header name to
\* value, a later value replacing an earlier one of the same name.
Headers_new == [k \in {} |-> ""]
Headers_set(headers, name, value) ==
    [k \in DOMAIN headers \cup {name} |-> IF k = name THEN value ELSE headers[k]]
Headers_extend(headers, other) ==
    [k \in DOMAIN headers \cup DOMAIN other |->
         IF k \in DOMAIN other THEN other[k] ELSE headers[k]]

ResponseHead(status, headers) == [status |-> status, headers |-> headers]

\* What a collaborator call leaves in the observation log.
Event(op, n, seen, ret) == [op |-> op, n |-> n, seen |-> seen, ret |-> ret]

----------------------------------------------------------------------------
(* Context filters *)

ContextAction_Next == [kind |-> "Next", status |-> 0]
ContextAction_Abort(status) == [kind |-> "Abort", status |-> status]

\* The filters of the model.  "stash" stores a value of its own type in the
\* scoped storage, "rewrite" replaces the request's URI, "deny" aborts,
\* "guard" aborts unless an earlier filter stored something.
FilterKinds ==
    {[kind |-> "stash", status |-> 0],
     [kind |-> "rewrite", status |-> 0],
     [kind |-> "deny", status |-> 401],
     [kind |-> "guard", status |-> 403]}

RewrittenPath == <<SLASH, 98>>     \* "/b"

\* ContextFilter::modify(FilterContext { storage, global }, context) for the
\* filter at position k of the chain.
modify(filter, k, storage, context) ==
    [action |->
         IF filter.kind = "deny" THEN ContextAction_Abort(filter.status)
         ELSE IF filter.kind = "guard" /\ storage = {}
              THEN ContextAction_Abort(filter.status)
              ELSE ContextAction_Next,
     storage |-> IF filter.kind = "stash" THEN storage \cup {k} ELSE storage,
     context |-> IF filter.kind = "rewrite"
                 THEN [context EXCEPT !.uri = Uri_Path(RewrittenPath)]
                 ELSE context]

\* The loop of modify_context from position i on, with the result so far.
RECURSIVE modify_context_from(_, _, _, _, _, _)
modify_context_from(context_filters, i, result, storage, context, log) ==
    IF i > Len(context_filters)
    THEN [result |-> result, storage |-> storage, context |-> context, log |-> log]
    ELSE IF result.kind = "Next"
         THEN LET m == modify(context_filters[i], i, storage, context)
              IN modify_context_from(context_filters, i + 1, m.action, m.storage,
                                     m.context,
                                     Append(log, Event("modify", i, storage, m.action)))
         ELSE [result |-> result, storage |-> storage, context |-> context,
               log |-> log]

\* The loop without its early return: every filter runs, the first Abort is
\* what is returned.
RECURSIVE modify_context_all_from(_, _, _, _, _, _)
modify_context_all_from(context_filters, i, result, storage, context, log) ==
    IF i > Len(context_filters)
    THEN [result |-> result, storage |-> storage, context |-> context, log |-> log]
    ELSE LET m == modify(context_filters[i], i, storage, context)
         IN modify_context_all_from(
                context_filters, i + 1,
                IF result.kind = "Next" THEN m.action ELSE result,
                m.storage, m.context,
                Append(log, Event("modify", i, storage, m.action)))

modify_context_run_all(context_filters, filter_storage, context) ==
    modify_context_all_from(context_filters, 1, ContextAction_Next,
                            filter_storage, context, <<>>)

\* The filters work on a copy: what they change in the context is dropped.
modify_context_on_copy(context_filters, filter_storage, context) ==
    [modify_context_from(context_filters, 1, ContextAction_Next,
                         filter_storage, context, <<>>)
        EXCEPT !.context = context]

modify_context(context_filters, filter_storage, context) ==
    modify_context_from(context_filters, 1, ContextAction_Next,
                        filter_storage, context, <<>>)

----------------------------------------------------------------------------
(* Router and handlers *)

Endpoint(handler, variables, hyperlinks) ==
    [handler |-> handler, variables |-> variables, hyperlinks |-> hyperlinks]

\* Router::find(method, path): the handler registered for exactly this
\* method and path, and the sibling routes of the path whether or not the
\* method matched.
Router_find(handlers, method, path) ==
    LET hits == {r \in handlers : r.method = method /\ r.path = path}
    IN Endpoint(IF hits = {} THEN None
                ELSE Some((CHOOSE r \in hits : TRUE).handler),
                Parameters_new,
                {r.method : r \in {q \in handlers : q.path = path}})

\* The routers of the model: an empty one, and one with GET /b.
Routers ==
    {{}, {[method |-> "GET", path |-> RewrittenPath, handler |-> "h_b"]}}

\* The heads a handler instance may answer on_response with: the response it
\* was created with, or one with status and content type overridden.
HandlerHeads(instance) ==
    {ResponseHead(instance.response.status, instance.response.headers),
     ResponseHead(201, Headers_set(instance.response.headers,
                                   "Content-Type", "application/json"))}

----------------------------------------------------------------------------
(* RequestHandler *)

WriteMethod_Handler(handler) ==
    [kind |-> "Handler", handler |-> Some(handler), head |-> None]
WriteMethod_Error(head) ==
    [kind |-> "Error", handler |-> None, head |-> head]

\* RequestHandler::new: no write method, the control handle present.
RequestHandler_new(control) ==
    [write_method |-> None, control |-> Some(control)]

\* Nothing observed yet; the transport's response is untouched.
Obs_new ==
    [request |-> None, components |-> None, endpoint |-> None,
     log |-> <<>>, chain |-> None, ret |-> None,
     handler_ret |-> None, handler_head |-> None,
     out |-> [status |-> None, headers |-> Headers_new],
     delivered |-> [request |-> 0, readable |-> 0, response |-> 0, writable |-> 0],
     forwarded |-> [readable |-> 0, response |-> 0, writable |-> 0],
     last |-> "create",
     fault |-> None]

\* The Server header is not set.
seed_response_no_server(cfg) ==
    [status |-> StatusCode_Ok,
     headers |-> Headers_set(Headers_set(Headers_new, "Date", "now_utc"),
                             "Content-Type", cfg.content_type),
     storage |-> {}]

\* RawResponse with the Date, Content-Type and Server headers set.
seed_response(cfg) ==
    [status |-> StatusCode_Ok,
     headers |-> Headers_set(
                     Headers_set(
                         Headers_set(Headers_new, "Date", "now_utc"),
                         "Content-Type", cfg.content_type),
                     "Server", cfg.server),
     storage |-> {}]

seed_log ==
    <<Event("headers.set", 0, {}, "Date"),
      Event("headers.set", 0, {}, "Content-Type"),
      Event("headers.set", 0, {}, "Server")>>

\* The catch-all arm parses the target as a path instead of giving None.
path_components_parse_all(uri) ==
    IF uri.variant = "AbsoluteUri" THEN Some(parse_url(Url_parse(uri.text)))
    ELSE IF uri.variant = "Star"
         THEN Some(ParsedUri(None, Uri_Asterisk, Parameters_new, None))
         ELSE Some(parse_path(uri.text))

\* The wildcard is parsed like a path instead of becoming Uri::Asterisk.
path_components_star_as_path(uri) ==
    IF uri.variant = "AbsoluteUri" THEN Some(parse_url(Url_parse(uri.text)))
    ELSE IF uri.variant \in {"AbsolutePath", "Star"}
         THEN Some(parse_path(uri.text))
         ELSE None

\* match *request.uri() { AbsoluteUri, AbsolutePath, Star, _ }
path_components(uri) ==
    IF uri.variant = "AbsoluteUri" THEN Some(parse_url(Url_parse(uri.text)))
    ELSE IF uri.variant = "AbsolutePath" THEN Some(parse_path(uri.text))
    ELSE IF uri.variant = "Star"
         THEN Some(ParsedUri(None, Uri_Asterisk, Parameters_new, None))
         ELSE None

RawContext(request, parsed_uri, control) ==
    [method |-> request.method,
     uri |-> parsed_uri.uri,
     hyperlinks |-> {},
     variables |-> Parameters_new,
     query |-> parsed_uri.query,
     fragment |-> parsed_uri.fragment,
     control |-> control]

\* context.uri.as_path().map_or_else(|| Endpoint { None, .. }, |path| find(..))
resolve_endpoint(cfg, context) ==
    IF IsSome(as_path(context.uri))
    THEN Router_find(cfg.handlers, context.method, Unwrap(as_path(context.uri)))
    ELSE Endpoint(None, Parameters_new, {})

resolve_log(context) ==
    IF IsSome(as_path(context.uri))
    THEN <<Event("find", 0, {}, <<context.method, Unwrap(as_path(context.uri))>>)>>
    ELSE <<>>

\* The fallback is preferred to the router's handler.
select_handler_fallback_first(endpoint, fallback_handler) ==
    IF IsSome(fallback_handler) THEN fallback_handler ELSE endpoint.handler

\* handler.or(config.fallback_handler.as_ref())
select_handler(endpoint, fallback_handler) ==
    IF IsSome(endpoint.handler) THEN endpoint.handler ELSE fallback_handler

\* The error arm forgets "response.status = ...": the head keeps the seeded
\* status.
error_method_stale_status(response, status) ==
    WriteMethod_Error(Some(ResponseHead(response.status, response.headers)))

error_method(response, status) ==
    WriteMethod_Error(Some(ResponseHead(status, response.headers)))

\* The response handed to the handler starts with a storage of its own.
dispatch_next_fresh_storage(cfg, chain, sig) ==
    LET response == seed_response(cfg)
        endpoint == resolve_endpoint(cfg, chain.context)
        handler == select_handler(endpoint, cfg.fallback_handler)
        context == [chain.context EXCEPT !.hyperlinks = endpoint.hyperlinks,
                                         !.variables = endpoint.variables]
        instance == [factory |-> Unwrap(handler), context |-> context,
                     response |-> response]
    IN IF IsSome(handler)
       THEN [write_method |-> WriteMethod_Handler(instance),
             next |-> sig,
             endpoint |-> endpoint,
             log |-> resolve_log(chain.context)
                       \o <<Event("create", 0, chain.storage, Unwrap(handler)),
                            Event("handler.on_request", 0, {}, sig)>>]
       ELSE [write_method |-> error_method(response, StatusCode_NotFound),
             next |-> Next_write,
             endpoint |-> endpoint,
             log |-> resolve_log(chain.context)]

\* The ContextAction::Next arm of on_request.
dispatch_next(cfg, chain, sig) ==
    LET response == [seed_response(cfg) EXCEPT !.storage = chain.storage]
        endpoint == resolve_endpoint(cfg, chain.context)
        handler == select_handler(endpoint, cfg.fallback_handler)
        context == [chain.context EXCEPT !.hyperlinks = endpoint.hyperlinks,
                                         !.variables = endpoint.variables]
        instance == [factory |-> Unwrap(handler), context |-> context,
                     response |-> response]
    IN IF IsSome(handler)
       THEN [write_method |-> WriteMethod_Handler(instance),
             next |-> sig,
             endpoint |-> endpoint,
             log |-> resolve_log(chain.context)
                       \o <<Event("create", 0, chain.storage, Unwrap(handler)),
                            Event("handler.on_request", 0, {}, sig)>>]
       ELSE [write_method |-> error_method(response, StatusCode_NotFound),
             next |-> Next_write,
             endpoint |-> endpoint,
             log |-> resolve_log(chain.context)]

\* The map is whatever the filters of other connections have seen so far.
Map_left_over ==
    UNION UNION {{obs[c].log[i].seen : i \in 1..Len(obs[c].log)} : c \in conns}

\* let mut filter_storage = Map::new()
Map_new == {}

\* An Abort from the chain is not acted on: routing goes ahead.
dispatch_abort_routes(cfg, control, request, sig) ==
    LET components == path_components(request.uri)
        context == RawContext(request, Unwrap(components), control)
        chain == modify_context(cfg.context_filters, Map_new, context)
        after == dispatch_next(cfg, chain, sig)
    IN IF IsSome(components)
       THEN [write_method |-> after.write_method,
             next |-> after.next,
             components |-> components,
             chain |-> Some(chain.result),
             endpoint |-> Some(after.endpoint),
             log |-> seed_log \o chain.log \o after.log]
       ELSE [write_method |-> error_method(seed_response(cfg),
                                           StatusCode_BadRequest),
             next |-> Next_write,
             components |-> components,
             chain |-> None,
             endpoint |-> None,
             log |-> seed_log]

\* The body of on_request once the control handle has been taken: the write
\* method to store, the directive to return, and the collaborator calls made.
dispatch(cfg, control, request, sig) ==
    LET components == path_components(request.uri)
        context == RawContext(request, Unwrap(components), control)
        chain == modify_context(cfg.context_filters, Map_new, context)
        after == dispatch_next(cfg, chain, sig)
    IN IF IsSome(components)
       THEN IF chain.result.kind = "Next"
            THEN [write_method |-> after.write_method,
                  next |-> after.next,
                  components |-> components,
                  chain |-> Some(chain.result),
                  endpoint |-> Some(after.endpoint),
                  log |-> seed_log \o chain.log \o after.log]
            ELSE [write_method |-> error_method(seed_response(cfg),
                                                chain.result.status),
                  next |-> Next_write,
                  components |-> components,
                  chain |-> Some(chain.result),
                  endpoint |-> None,
                  log |-> seed_log \o chain.log]
       ELSE [write_method |-> error_method(seed_response(cfg),
                                           StatusCode_BadRequest),
             next |-> Next_write,
             components |-> components,
             chain |-> None,
             endpoint |-> None,
             log |-> seed_log]

----------------------------------------------------------------------------
(* The server: one shared configuration, handlers driven by the transport *)

RECURSIVE Chains(_)
Chains(n) ==
    IF n = 0 THEN {<<>>}
    ELSE LET shorter == Chains(n - 1)
         IN shorter \cup {Append(ch, f) : ch \in {x \in shorter : Len(x) = n - 1},
                                       f \in FilterKinds}

Configs ==
    [context_filters : Chains(MaxFilters),
     handlers : Routers,
     fallback_handler : {None, Some("fallback")},
     server : {"rustful"},
     content_type : {"text/plain"}]

\* The request targets as hyper classifies them: "/a", "/b?a=2#",
\* "http://example.com/b", "*", and the authority form "a".
RequestUris ==
    {[variant |-> "AbsolutePath", text |-> <<SLASH, 97>>],
     [variant |-> "AbsolutePath", text |-> <<SLASH, 98, QMARK, 97, 61, 50, HASH>>],
     [variant |-> "AbsoluteUri", text |-> <<SLASH, 98>>],
     [variant |-> "Star", text |-> <<42>>],
     [variant |-> "Authority", text |-> <<97>>]}

\* GET on every target, and POST on the one the router knows.
Requests ==
    [method : {"GET"}, uri : RequestUris]
    \cup [method : {"POST"}, uri : {u \in RequestUris : u.variant = "AbsoluteUri"}]

Init ==
    /\ config \in Configs
    /\ conns = {1}
    /\ rh = [c \in conns |-> RequestHandler_new(c)]
    /\ obs = [c \in conns |-> Obs_new]
    /\ calls = 0
    /\ target = [form |-> "none", text |-> <<>>]
    /\ parsed = None

\* The handler can take a callback: it has not panicked, and the model's
\* budget of callbacks is not spent.
\* A handler that panicked takes no further callback; the handlers of other
\* connections are separate objects and are not touched by the panic.
Deliverable(c) == calls < MaxCalls /\ IsNone(obs[c].fault)

Delivered(o, name) ==
    [o EXCEPT !.last = name,
              !.delivered = [@ EXCEPT ![IF name = "on_request" THEN "request"
                                        ELSE IF name = "on_request_readable" THEN "readable"
                                        ELSE IF name = "on_response" THEN "response"
                                        ELSE "writable"] = @ + 1]]

Panic(o, message) == [o EXCEPT !.fault = Some(message)]

\* The control handle is read, not taken: it stays in the handler.
on_request_keep_control(c, request, sig) ==
    /\ Deliverable(c)
    /\ calls' = calls + 1
    /\ IF IsSome(rh[c].control)
       THEN LET d == dispatch(config, Unwrap(rh[c].control), request, sig)
            IN /\ rh' = [rh EXCEPT ![c] = [write_method |-> Some(d.write_method),
                                           control |-> rh[c].control]]
               /\ obs' = [obs EXCEPT ![c] =
                              [Delivered(@, "on_request") EXCEPT
                                   !.request = Some(request),
                                   !.components = d.components,
                                   !.endpoint = d.endpoint,
                                   !.log = @ \o d.log,
                                   !.chain = d.chain,
                                   !.handler_ret =
                                       IF d.write_method.kind = "Handler"
                                       THEN Some(sig) ELSE None,
                                   !.ret = Some(d.next)]]
       ELSE /\ rh' = rh
            /\ obs' = [obs EXCEPT ![c] =
                           Panic(Delivered(@, "on_request"), "RequestHandler reused")]
    /\ UNCHANGED <<config, conns, target, parsed>>

\* A reused handler dispatches again instead of panicking.
on_request_redispatch(c, request, sig) ==
    /\ Deliverable(c)
    /\ calls' = calls + 1
    /\ LET d == dispatch(config, c, request, sig)
       IN /\ rh' = [rh EXCEPT ![c] = [write_method |-> Some(d.write_method),
                                      control |-> None]]
          /\ obs' = [obs EXCEPT ![c] =
                         [Delivered(@, "on_request") EXCEPT
                              !.request = Some(request),
                              !.components = d.components,
                              !.endpoint = d.endpoint,
                              !.log = @ \o d.log,
                              !.chain = d.chain,
                              !.handler_ret =
                                  IF d.write_method.kind = "Handler"
                                  THEN Some(sig) ELSE None,
                              !.ret = Some(d.next)]]
    /\ UNCHANGED <<config, conns, target, parsed>>

on_request(c, request, sig) ==
    /\ Deliverable(c)
    /\ calls' = calls + 1
    /\ IF IsSome(rh[c].control)
       THEN LET d == dispatch(config, Unwrap(rh[c].control), request, sig)
            IN /\ rh' = [rh EXCEPT ![c] = [write_method |-> Some(d.write_method),
                                           control |-> None]]
               /\ obs' = [obs EXCEPT ![c] =
                              [Delivered(@, "on_request") EXCEPT
                                   !.request = Some(request),
                                   !.components = d.components,
                                   !.endpoint = d.endpoint,
                                   !.log = @ \o d.log,
                                   !.chain = d.chain,
                                   !.handler_ret =
                                       IF d.write_method.kind = "Handler"
                                       THEN Some(sig) ELSE None,
                                   !.ret = Some(d.next)]]
       ELSE /\ rh' = rh
            /\ obs' = [obs EXCEPT ![c] =
                           Panic(Delivered(@, "on_request"), "RequestHandler reused")]
    /\ UNCHANGED <<config, conns, target, parsed>>

IsHandler(write_method) ==
    IsSome(write_method) /\ Unwrap(write_method).kind = "Handler"

\* The Error arm throws the pending head away with the body bytes.
on_request_readable_drop_head(c, sig) ==
    /\ Deliverable(c)
    /\ calls' = calls + 1
    /\ IF IsHandler(rh[c].write_method)
       THEN /\ rh' = rh
            /\ obs' = [obs EXCEPT ![c] =
                           [Delivered(@, "on_request_readable") EXCEPT
                                !.forwarded.readable = @ + 1,
                                !.handler_ret = Some(sig),
                                !.ret = Some(sig)]]
       ELSE /\ rh' = [rh EXCEPT ![c].write_method =
                          IF IsSome(@) THEN Some(WriteMethod_Error(None)) ELSE @]
            /\ obs' = [obs EXCEPT ![c] =
                           [Delivered(@, "on_request_readable") EXCEPT
                                !.ret = Some(Next_write)]]
    /\ UNCHANGED <<config, conns, target, parsed>>

\* Without a write method the transport is asked for more request bytes.
on_request_readable_waits(c, sig) ==
    /\ Deliverable(c)
    /\ calls' = calls + 1
    /\ IF IsHandler(rh[c].write_method)
       THEN obs' = [obs EXCEPT ![c] =
                        [Delivered(@, "on_request_readable") EXCEPT
                             !.forwarded.readable = @ + 1,
                             !.handler_ret = Some(sig),
                             !.ret = Some(sig)]]
       ELSE obs' = [obs EXCEPT ![c] =
                        [Delivered(@, "on_request_readable") EXCEPT
                             !.ret = IF IsSome(rh[c].write_method)
                                     THEN Some(Next_write) ELSE Some(Next_read)]]
    /\ UNCHANGED <<config, conns, rh, target, parsed>>

on_request_readable(c, sig) ==
    /\ Deliverable(c)
    /\ calls' = calls + 1
    /\ IF IsHandler(rh[c].write_method)
       THEN obs' = [obs EXCEPT ![c] =
                        [Delivered(@, "on_request_readable") EXCEPT
                             !.forwarded.readable = @ + 1,
                             !.handler_ret = Some(sig),
                             !.ret = Some(sig)]]
       ELSE obs' = [obs EXCEPT ![c] =
                        [Delivered(@, "on_request_readable") EXCEPT
                             !.ret = Some(Next_write)]]
    /\ UNCHANGED <<config, conns, rh, target, parsed>>

\* response.set_status(head.status); response.headers_mut().extend(head.headers)
emit(out, head) ==
    [status |-> Some(head.status),
     headers |-> Headers_extend(out.headers, head.headers)]

\* The Handler arm writes the head the response was seeded with, whatever
\* the handler returns.
on_response_seeded_head(c, head, sig) ==
    /\ Deliverable(c)
    /\ calls' = calls + 1
    /\ IF IsSome(rh[c].write_method)
       THEN IF IsHandler(rh[c].write_method)
            THEN /\ head \in HandlerHeads(Unwrap(Unwrap(rh[c].write_method).handler))
                 /\ rh' = rh
                 /\ obs' = [obs EXCEPT ![c] =
                                [Delivered(@, "on_response") EXCEPT
                                     !.forwarded.response = @ + 1,
                                     !.handler_head = Some(head),
                                     !.handler_ret = Some(sig),
                                     !.out = emit(@, ResponseHead(
                                         Unwrap(Unwrap(rh[c].write_method).handler).response.status,
                                         Unwrap(Unwrap(rh[c].write_method).handler).response.headers)),
                                     !.ret = Some(sig)]]
            ELSE IF IsSome(Unwrap(rh[c].write_method).head)
                 THEN /\ rh' = [rh EXCEPT ![c].write_method =
                                    Some(WriteMethod_Error(None))]
                      /\ obs' = [obs EXCEPT ![c] =
                                     [Delivered(@, "on_response") EXCEPT
                                          !.out = emit(@, Unwrap(Unwrap(rh[c].write_method).head)),
                                          !.ret = Some(Next_end)]]
                 ELSE /\ rh' = rh
                      /\ obs' = [obs EXCEPT ![c] =
                                     Panic(Delivered(@, "on_response"),
                                           "missing response head")]
       ELSE /\ rh' = rh
            /\ obs' = [obs EXCEPT ![c] =
                           Panic(Delivered(@, "on_response"), "missing write method")]
    /\ UNCHANGED <<config, conns, target, parsed>>

\* After the error head the transport is told to go on writing.
on_response_error_goes_on(c, head, sig) ==
    /\ Deliverable(c)
    /\ calls' = calls + 1
    /\ IF IsSome(rh[c].write_method)
       THEN IF IsHandler(rh[c].write_method)
            THEN /\ head \in HandlerHeads(Unwrap(Unwrap(rh[c].write_method).handler))
                 /\ rh' = rh
                 /\ obs' = [obs EXCEPT ![c] =
                                [Delivered(@, "on_response") EXCEPT
                                     !.forwarded.response = @ + 1,
                                     !.handler_head = Some(head),
                                     !.handler_ret = Some(sig),
                                     !.out = emit(@, head),
                                     !.ret = Some(sig)]]
            ELSE IF IsSome(Unwrap(rh[c].write_method).head)
                 THEN /\ rh' = [rh EXCEPT ![c].write_method =
                                    Some(WriteMethod_Error(None))]
                      /\ obs' = [obs EXCEPT ![c] =
                                     [Delivered(@, "on_response") EXCEPT
                                          !.out = emit(@, Unwrap(Unwrap(rh[c].write_method).head)),
                                          !.ret = Some(Next_write)]]
                 ELSE /\ rh' = rh
                      /\ obs' = [obs EXCEPT ![c] =
                                     Panic(Delivered(@, "on_response"),
                                           "missing response head")]
       ELSE /\ rh' = rh
            /\ obs' = [obs EXCEPT ![c] =
                           Panic(Delivered(@, "on_response"), "missing write method")]
    /\ UNCHANGED <<config, conns, target, parsed>>

\* The Error arm hands out the pending head without emptying its slot.
on_response_keep_head(c, head, sig) ==
    /\ Deliverable(c)
    /\ calls' = calls + 1
    /\ IF IsSome(rh[c].write_method)
       THEN IF IsHandler(rh[c].write_method)
            THEN /\ head \in HandlerHeads(Unwrap(Unwrap(rh[c].write_method).handler))
                 /\ rh' = rh
                 /\ obs' = [obs EXCEPT ![c] =
                                [Delivered(@, "on_response") EXCEPT
                                     !.forwarded.response = @ + 1,
                                     !.handler_head = Some(head),
                                     !.handler_ret = Some(sig),
                                     !.out = emit(@, head),
                                     !.ret = Some(sig)]]
            ELSE IF IsSome(Unwrap(rh[c].write_method).head)
                 THEN /\ rh' = rh
                      /\ obs' = [obs EXCEPT ![c] =
                                     [Delivered(@, "on_response") EXCEPT
                                          !.out = emit(@, Unwrap(Unwrap(rh[c].write_method).head)),
                                          !.ret = Some(Next_end)]]
                 ELSE /\ rh' = rh
                      /\ obs' = [obs EXCEPT ![c] =
                                     Panic(Delivered(@, "on_response"),
                                           "missing response head")]
       ELSE /\ rh' = rh
            /\ obs' = [obs EXCEPT ![c] =
                           Panic(Delivered(@, "on_response"), "missing write method")]
    /\ UNCHANGED <<config, conns, target, parsed>>

on_response(c, head, sig) ==
    /\ Deliverable(c)
    /\ calls' = calls + 1
    /\ IF IsSome(rh[c].write_method)
       THEN IF IsHandler(rh[c].write_method)
            THEN /\ head \in HandlerHeads(Unwrap(Unwrap(rh[c].write_method).handler))
                 /\ rh' = rh
                 /\ obs' = [obs EXCEPT ![c] =
                                [Delivered(@, "on_response") EXCEPT
                                     !.forwarded.response = @ + 1,
                                     !.handler_head = Some(head),
                                     !.handler_ret = Some(sig),
                                     !.out = emit(@, head),
                                     !.ret = Some(sig)]]
            ELSE IF IsSome(Unwrap(rh[c].write_method).head)
                 THEN /\ rh' = [rh EXCEPT ![c].write_method =
                                    Some(WriteMethod_Error(None))]
                      /\ obs' = [obs EXCEPT ![c] =
                                     [Delivered(@, "on_response") EXCEPT
                                          !.out = emit(@, Unwrap(Unwrap(rh[c].write_method).head)),
                                          !.ret = Some(Next_end)]]
                 ELSE /\ rh' = rh
                      /\ obs' = [obs EXCEPT ![c] =
                                     Panic(Delivered(@, "on_response"),
                                           "missing response head")]
       ELSE /\ rh' = rh
            /\ obs' = [obs EXCEPT ![c] =
                           Panic(Delivered(@, "on_response"), "missing write method")]
    /\ UNCHANGED <<config, conns, target, parsed>>

\* Without a handler the transport is asked to write again.
on_response_writable_write_again(c, sig) ==
    /\ Deliverable(c)
    /\ calls' = calls + 1
    /\ IF IsHandler(rh[c].write_method)
       THEN obs' = [obs EXCEPT ![c] =
                        [Delivered(@, "on_response_writable") EXCEPT
                             !.forwarded.writable = @ + 1,
                             !.handler_ret = Some(sig),
                             !.ret = Some(sig)]]
       ELSE obs' = [obs EXCEPT ![c] =
                        [Delivered(@, "on_response_writable") EXCEPT
                             !.ret = Some(Next_write)]]
    /\ UNCHANGED <<config, conns, rh, target, parsed>>

on_response_writable(c, sig) ==
    /\ Deliverable(c)
    /\ calls' = calls + 1
    /\ IF IsHandler(rh[c].write_method)
       THEN obs' = [obs EXCEPT ![c] =
                        [Delivered(@, "on_response_writable") EXCEPT
                             !.forwarded.writable = @ + 1,
                             !.handler_ret = Some(sig),
                             !.ret = Some(sig)]]
       ELSE obs' = [obs EXCEPT ![c] =
                        [Delivered(@, "on_response_writable") EXCEPT
                             !.ret = Some(Next_end)]]
    /\ UNCHANGED <<config, conns, rh, target, parsed>>

\* Every head a handler of the model may produce.
AllHeads ==
    UNION {HandlerHeads([response |-> seed_response(cfg)]) : cfg \in Configs}

Next ==
    \/ \E c \in conns, request \in Requests, sig \in Signals :
           on_request(c, request, sig)
    \/ \E c \in conns, sig \in Signals : on_request_readable(c, sig)
    \/ \E c \in conns, head \in AllHeads, sig \in Signals : on_response(c, head, sig)
    \/ \E c \in conns, sig \in Signals : on_response_writable(c, sig)

Spec == Init /\ [][Next]_vars

\* Several connections handed to the same server instance.
Connections == {1, 2}

\* A router that knows GET /b, no fallback, any chain in which some filter
\* stores something; the requests are GET /a and GET /b?a=2#.
ConfigsConns ==
    {cfg \in Configs :
         /\ cfg.handlers # {}
         /\ IsNone(cfg.fallback_handler)
         /\ \E k \in 1..Len(cfg.context_filters) :
                cfg.context_filters[k].kind = "stash"}

RequestsConns ==
    {r \in Requests : r.method = "GET" /\ r.uri.variant = "AbsolutePath"}

InitConns ==
    /\ config \in ConfigsConns
    /\ conns = Connections
    /\ rh = [c \in conns |-> RequestHandler_new(c)]
    /\ obs = [c \in conns |-> Obs_new]
    /\ calls = 0
    /\ target = [form |-> "none", text |-> <<>>]
    /\ parsed = None

NextConns ==
    \/ \E c \in conns, request \in RequestsConns, sig \in Signals :
           on_request(c, request, sig)
    \/ \E c \in conns, sig \in Signals : on_request_readable(c, sig)
    \/ \E c \in conns, head \in AllHeads, sig \in Signals : on_response(c, head, sig)
    \/ \E c \in conns, sig \in Signals : on_response_writable(c, sig)

SpecConns == InitConns /\ [][NextConns]_vars

\* The transport as hyper drives a handler: on_request first, then the event
\* the last returned directive asks for (read: a readable event; write: the
\* head when none was written yet, body bytes afterwards); nothing after end.
DriveRequest ==
    \E c \in conns, request \in Requests, sig \in Signals :
        /\ obs[c].delivered.request = 0
        /\ IsNone(obs[c].ret)
        /\ on_request(c, request, sig)

DriveReadable ==
    \E c \in conns, sig \in Signals :
        /\ obs[c].ret = Some(Next_read)
        /\ on_request_readable(c, sig)

DriveResponse ==
    \E c \in conns, head \in AllHeads, sig \in Signals :
        /\ obs[c].ret = Some(Next_write)
        /\ obs[c].delivered.response = 0
        /\ on_response(c, head, sig)

DriveWritable ==
    \E c \in conns, sig \in Signals :
        /\ obs[c].ret = Some(Next_write)
        /\ obs[c].delivered.response > 0
        /\ on_response_writable(c, sig)

NextDriven == DriveRequest \/ DriveReadable \/ DriveResponse \/ DriveWritable

\* An event a directive asked for is eventually delivered; whether a request
\* ever arrives is up to the client.
SpecDriven ==
    /\ Init /\ [][NextDriven]_vars
    /\ WF_vars(DriveReadable) /\ WF_vars(DriveResponse) /\ WF_vars(DriveWritable)

----------------------------------------------------------------------------
(* Claims about the parsers, checked under SpecParse *)

\* The split the reference rule names, written with quantifiers instead of
\* the parser's own scans.
FirstIndex(s, c) ==
    IF \E i \in 1..Len(s) : s[i] = c
    THEN CHOOSE i \in 1..Len(s) : s[i] = c /\ \A j \in 1..(i - 1) : s[j] # c
    ELSE 0

RefHasQuery(s) == FirstIndex(s, QMARK) # 0
RefTail(s) == IF RefHasQuery(s) THEN After(s, FirstIndex(s, QMARK)) ELSE s
RefHasFragment(s) == FirstIndex(RefTail(s), HASH) # 0
RefBeforeFragment(s) ==
    IF RefHasFragment(s)
    THEN Before(RefTail(s), FirstIndex(RefTail(s), HASH))
    ELSE RefTail(s)
RefPathPart(s) ==
    IF RefHasQuery(s) THEN Before(s, FirstIndex(s, QMARK)) ELSE RefBeforeFragment(s)
RefFragmentPart(s) == After(RefTail(s), FirstIndex(RefTail(s), HASH))

OriginForm(t) == t.form = "path" /\ Len(t.text) > 0 /\ t.text[1] = SLASH

\* C9: for every origin-form target, parse_path yields the (percent-decoded)
\* text before the first '?' as the path, hands the text between that '?'
\* and the first following '#' to the query parser as the raw query (later
\* '?' stay in it), and yields the (percent-decoded) text after that '#' as
\* the fragment; without a '?' the path is the text before the first '#'
\* and the query is empty.  The fragment is None exactly when no '#'
\* follows, and Some("") when that '#' is the last character.
C9_SplitAsReference ==
    (OriginForm(target) /\ IsSome(parsed)) =>
        LET s == target.text
            r == Unwrap(parsed)
        IN /\ r.uri = Uri_Path(percent_decode(RefPathPart(s)))
           /\ RefHasQuery(s) =>
                  /\ raw_query(s) = Some(RefBeforeFragment(s))
                  /\ r.query = parse_parameters(RefBeforeFragment(s))
           /\ ~RefHasQuery(s) =>
                  /\ raw_query(s) = None
                  /\ r.query = Parameters_new
           /\ IsNone(r.fragment) <=> ~RefHasFragment(s)
           /\ RefHasFragment(s) =>
                  r.fragment = Some(percent_decode(RefFragmentPart(s)))
           /\ (RefHasFragment(s) /\ Len(RefFragmentPart(s)) = 0) =>
                  (r.fragment = Some(<<>>) /\ r.fragment # None)

\* "/??#" parsed: path "/", raw query "?", fragment Some("").
C9_Witness ==
    /\ target = [form |-> "path", text |-> <<SLASH, QMARK, QMARK, HASH>>]
    /\ IsSome(parsed)
    /\ Unwrap(parsed).uri = Uri_Path(<<SLASH>>)
    /\ raw_query(target.text) = Some(<<QMARK>>)
    /\ Unwrap(parsed).fragment = Some(<<>>)

BeginsWithSlash(p) == Len(p) > 0 /\ p[1] = SLASH

\* The path part of a target is empty: for parse_path by the split above,
\* for parse_url when the URL has no path after its authority.
EmptyPathPart(t) ==
    IF t.form = "path" THEN Len(RefPathPart(t.text)) = 0
    ELSE Len(t.text) = 0 \/ t.text[1] # SLASH

\* The targets the parsers are handed by their callers: every parsed URL,
\* and for parse_path the origin-form strings of on_request (hyper's
\* AbsolutePath, beginning with '/') and, as in the crate's tests, strings
\* with an empty path part.
HandledTarget(t) ==
    \/ t.form # "path"
    \/ EmptyPathPart(t)
    \/ BeginsWithSlash(t.text)

\* C10: for every target handled by parse_path or parse_url the produced
\* path begins with '/', and a target whose path part is empty yields
\* exactly the path "/".
C10_AlwaysBeginsWithSlash ==
    (IsSome(parsed) /\ HandledTarget(target)) =>
        /\ BeginsWithSlash(Unwrap(parsed).uri.path)
        /\ EmptyPathPart(target) => Unwrap(parsed).uri.path = <<SLASH>>

\* "?a#" parsed by parse_path, and a URL without a path parsed by parse_url.
C10_Witness ==
    /\ IsSome(parsed)
    /\ Unwrap(parsed).uri.path = <<SLASH>>
    /\ \/ target = [form |-> "path", text |-> <<QMARK, 97, HASH>>]
       \/ target = [form |-> "url", text |-> <<QMARK, 97>>]

----------------------------------------------------------------------------
(* Claims about dispatch, checked under Spec *)

IsModify(e) == e.op = "modify"
IsFind(e) == e.op = "find"
IsCreate(e) == e.op = "create"
IsHandlerCall(e) == e.op = "handler.on_request"

ModifyEvents(c) == SelectSeq(obs[c].log, IsModify)
FindEvents(c) == SelectSeq(obs[c].log, IsFind)
CreateEvents(c) == SelectSeq(obs[c].log, IsCreate)
HandlerCalls(c) == SelectSeq(obs[c].log, IsHandlerCall)

Dispatched(c) == IsSome(obs[c].request)
ChainRan(c) == IsSome(obs[c].chain)
ChainResult(c) == Unwrap(obs[c].chain)

\* What each filter of a chain returns, from the filters alone: "deny"
\* aborts, "guard" aborts when no "stash" stands before it.
Aborts(filters, k) ==
    \/ filters[k].kind = "deny"
    \/ /\ filters[k].kind = "guard"
       /\ \A j \in 1..(k - 1) : filters[j].kind # "stash"

FirstAbort(filters) ==
    IF \E k \in 1..Len(filters) : Aborts(filters, k)
    THEN CHOOSE k \in 1..Len(filters) :
             Aborts(filters, k) /\ \A j \in 1..(k - 1) : ~Aborts(filters, j)
    ELSE 0

\* The write method holds an Error, and the status of its head: the pending
\* one, or the one already written to the transport's response.
IsError(c) ==
    IsSome(rh[c].write_method) /\ Unwrap(rh[c].write_method).kind = "Error"
PendingHead(c) == Unwrap(rh[c].write_method).head
ErrorStatusIs(c, status) ==
    /\ IsError(c)
    /\ IF IsSome(PendingHead(c))
       THEN Unwrap(PendingHead(c)).status = status /\ IsNone(obs[c].out.status)
       ELSE obs[c].out.status = Some(status)

NothingForwarded(c) ==
    obs[c].forwarded = [readable |-> 0, response |-> 0, writable |-> 0]

\* What the callbacks return on the error path: on_request and
\* on_request_readable the write directive, on_response and
\* on_response_writable end.
ErrorPathDirectives(c) ==
    IsNone(obs[c].fault) =>
        /\ obs[c].last \in {"on_request", "on_request_readable"} =>
               obs[c].ret = Some(Next_write)
        /\ obs[c].last \in {"on_response", "on_response_writable"} =>
               obs[c].ret = Some(Next_end)

\* C1: modify_context invokes the filters once each in chain order up to and
\* including the first one that returns Abort(S), none after it, and returns
\* that Abort(S); when every filter returns Next (the empty chain included)
\* every filter is invoked once in order and the result is Next.
C1_ChainHaltsAtFirstAbort ==
    \A c \in conns :
        ChainRan(c) =>
            LET ms == ModifyEvents(c)
                filters == config.context_filters
                k == FirstAbort(filters)
                n == IF k = 0 THEN Len(filters) ELSE k
            IN /\ Len(ms) = n
               /\ \A i \in 1..n : ms[i].n = i
               /\ \A i \in 1..(n - 1) : ms[i].ret = ContextAction_Next
               /\ IF k = 0
                  THEN /\ ChainResult(c) = ContextAction_Next
                       /\ \A i \in 1..n : ms[i].ret = ContextAction_Next
                  ELSE /\ ms[k].ret = ContextAction_Abort(filters[k].status)
                       /\ ChainResult(c) = ContextAction_Abort(filters[k].status)

\* A chain of two filters whose first aborts: one filter was invoked.
C1_Witness ==
    \E c \in conns :
        /\ Len(config.context_filters) = 2
        /\ config.context_filters[1].kind = "deny"
        /\ ChainRan(c)
        /\ ChainResult(c) = ContextAction_Abort(401)
        /\ Len(ModifyEvents(c)) = 1

\* C2: when the chain returns Abort(S), the router is not consulted, no
\* handler is created, the write method is Error with status S, on_request
\* returns write; afterwards nothing is forwarded to a handler, no body is
\* written, and on_response emits status S and returns end.
C2_AbortShortCircuits ==
    \A c \in conns :
        (ChainRan(c) /\ ChainResult(c).kind = "Abort") =>
            /\ Len(FindEvents(c)) = 0
            /\ Len(CreateEvents(c)) = 0
            /\ Len(HandlerCalls(c)) = 0
            /\ ErrorStatusIs(c, ChainResult(c).status)
            /\ NothingForwarded(c)
            /\ ErrorPathDirectives(c)
            /\ obs[c].delivered.response >= 1 =>
                   obs[c].out.status = Some(ChainResult(c).status)

\* An aborted request whose body was offered and whose head was written.
C2_Witness ==
    \E c \in conns :
        /\ ChainRan(c)
        /\ ChainResult(c) = ContextAction_Abort(403)
        /\ obs[c].delivered.readable = 1
        /\ obs[c].last = "on_response"
        /\ obs[c].out.status = Some(403)
        /\ obs[c].ret = Some(Next_end)

\* What the router answered on this dispatch: the handler of its find call,
\* None when find was not called.
RouterAnswer(c) ==
    IF Len(FindEvents(c)) = 0 THEN None
    ELSE Router_find(config.handlers, FindEvents(c)[1].ret[1],
                     FindEvents(c)[1].ret[2]).handler

NoRoute(c) ==
    /\ ChainRan(c)
    /\ ChainResult(c).kind = "Next"
    /\ IsNone(RouterAnswer(c))
    /\ IsNone(config.fallback_handler)

\* C3: with the chain at Next, no handler from the router and no fallback,
\* on_request stores Error with NotFound and returns write, on_response sets
\* status 404 and returns end, and no callback writes body bytes.
C3_NoRouteIs404 ==
    \A c \in conns :
        NoRoute(c) =>
            /\ ErrorStatusIs(c, StatusCode_NotFound)
            /\ Len(CreateEvents(c)) = 0
            /\ NothingForwarded(c)
            /\ ErrorPathDirectives(c)
            /\ obs[c].delivered.response >= 1 =>
                   obs[c].out.status = Some(StatusCode_NotFound)

\* GET /a against a router that only knows /b, head written, body asked for.
C3_Witness ==
    \E c \in conns :
        /\ NoRoute(c)
        /\ Len(FindEvents(c)) = 1
        /\ obs[c].delivered.response = 1
        /\ obs[c].last = "on_response_writable"
        /\ obs[c].out.status = Some(404)
        /\ obs[c].ret = Some(Next_end)

Unparseable(c) ==
    Dispatched(c) /\ Unwrap(obs[c].request).uri.variant
                        \notin {"AbsolutePath", "AbsoluteUri", "Star"}

\* C4: a target that is neither an absolute path, an absolute URL nor the
\* wildcard yields status 400 whatever the method, filters, router and
\* fallback; no filter runs, the router is not consulted, no handler is
\* created.
C4_UnparseableIs400 ==
    \A c \in conns :
        Unparseable(c) =>
            /\ ErrorStatusIs(c, StatusCode_BadRequest)
            /\ ~ChainRan(c)
            /\ Len(ModifyEvents(c)) = 0
            /\ Len(FindEvents(c)) = 0
            /\ Len(CreateEvents(c)) = 0
            /\ NothingForwarded(c)
            /\ ErrorPathDirectives(c)
            /\ obs[c].delivered.response >= 1 =>
                   obs[c].out.status = Some(StatusCode_BadRequest)

\* 400 written although a filter that would abort and a fallback exist.
C4_Witness ==
    \E c \in conns :
        /\ Unparseable(c)
        /\ Len(config.context_filters) > 0
        /\ config.context_filters[1].kind = "deny"
        /\ IsSome(config.fallback_handler)
        /\ config.handlers # {}
        /\ obs[c].out.status = Some(400)

Created(c, handler) ==
    /\ Len(CreateEvents(c)) = 1
    /\ CreateEvents(c)[1].ret = handler
    /\ IsHandler(rh[c].write_method)
    /\ Unwrap(Unwrap(rh[c].write_method).handler).factory = handler

\* C5: after a Next chain the router's handler is used when there is one
\* (the fallback is not); else the fallback when one is configured (no 404);
\* a 404 head is synthesized only when neither provides a handler.
C5_HandlerSelection ==
    \A c \in conns :
        (ChainRan(c) /\ ChainResult(c).kind = "Next") =>
            /\ IsSome(RouterAnswer(c)) => Created(c, Unwrap(RouterAnswer(c)))
            /\ (IsNone(RouterAnswer(c)) /\ IsSome(config.fallback_handler)) =>
                   Created(c, Unwrap(config.fallback_handler))
            /\ IsError(c) <=> (IsNone(RouterAnswer(c))
                               /\ IsNone(config.fallback_handler))
            /\ IsError(c) => ErrorStatusIs(c, StatusCode_NotFound)

\* The router's handler chosen while a fallback is configured.
C5_Witness ==
    \E c \in conns :
        /\ ChainRan(c)
        /\ RouterAnswer(c) = Some("h_b")
        /\ config.fallback_handler = Some("fallback")
        /\ Created(c, "h_b")

\* The step delivers on_request to c.
StepOnRequest(c) == obs'[c].delivered.request = obs[c].delivered.request + 1
StepOnResponse(c) == obs'[c].delivered.response = obs[c].delivered.response + 1

\* C6: the control handle is taken by the first on_request; a later
\* on_request finds none, panics, and runs no filter, makes no router lookup,
\* creates no handler and leaves the stored write method as it is.
C6_ControlConsumedOnce ==
    [][\A c \in conns :
           StepOnRequest(c) =>
               IF IsSome(rh[c].control)
               THEN /\ obs[c].delivered.request = 0
                    /\ IsNone(rh'[c].control)
                    /\ IsNone(obs'[c].fault)
                    /\ IsSome(rh'[c].write_method)
               ELSE /\ obs[c].delivered.request >= 1
                    /\ obs'[c].fault = Some("RequestHandler reused")
                    /\ rh'[c] = rh[c]
                    /\ obs'[c].log = obs[c].log
                    /\ obs'[c].out = obs[c].out]_vars

\* A second on_request was delivered and panicked.
C6_Witness ==
    \E c \in conns :
        /\ obs[c].delivered.request = 2
        /\ obs[c].fault = Some("RequestHandler reused")
        /\ IsNone(rh[c].control)
        /\ IsSome(rh[c].write_method)

\* C7: with an Error write method the first on_response writes the pending
\* head's status and headers to the transport's response, empties the slot
\* and returns end; a second on_response panics and writes nothing.
C7_ErrorHeadEmittedOnce ==
    [][\A c \in conns :
           (StepOnResponse(c) /\ IsError(c)) =>
               IF IsSome(PendingHead(c))
               THEN /\ obs[c].delivered.response = 0
                    /\ obs'[c].out.status = Some(Unwrap(PendingHead(c)).status)
                    /\ \A h \in DOMAIN Unwrap(PendingHead(c)).headers :
                           /\ h \in DOMAIN obs'[c].out.headers
                           /\ obs'[c].out.headers[h] = Unwrap(PendingHead(c)).headers[h]
                    /\ rh'[c].write_method = Some(WriteMethod_Error(None))
                    /\ obs'[c].ret = Some(Next_end)
                    /\ IsNone(obs'[c].fault)
               ELSE /\ obs[c].delivered.response >= 1
                    /\ obs'[c].fault = Some("missing response head")
                    /\ obs'[c].out = obs[c].out
                    /\ rh'[c] = rh[c]]_vars

\* The head was written once and a second on_response panicked.
C7_Witness ==
    \E c \in conns :
        /\ IsError(c)
        /\ obs[c].delivered.response = 2
        /\ obs[c].fault = Some("missing response head")
        /\ IsSome(obs[c].out.status)

SeededNames == {"Date", "Content-Type", "Server"}

HasSeededHeaders(headers) ==
    /\ SeededNames \subseteq DOMAIN headers
    /\ headers["Content-Type"] = config.content_type
    /\ headers["Server"] = config.server

\* C8: on every dispatch the Date, Content-Type and Server headers are set
\* before the first context filter is invoked and before any handler is
\* created, and every synthesized error head (400, 404, Abort) carries all
\* three.
C8_HeadersSeededFirst ==
    \A c \in conns :
        Dispatched(c) =>
            LET log == obs[c].log
            IN /\ Len(log) >= 3
               /\ {log[i].ret : i \in 1..3} = SeededNames
               /\ \A i \in 1..3 : log[i].op = "headers.set"
               /\ \A i \in 4..Len(log) : log[i].op # "headers.set"
               /\ (IsError(c) /\ IsSome(PendingHead(c))) =>
                      HasSeededHeaders(Unwrap(PendingHead(c)).headers)
               /\ (IsError(c) /\ IsNone(PendingHead(c))) =>
                      HasSeededHeaders(obs[c].out.headers)
               /\ IsHandler(rh[c].write_method) =>
                      HasSeededHeaders(
                          Unwrap(Unwrap(rh[c].write_method).handler).response.headers)

\* An aborted dispatch: headers set, then the filter, and the head pending.
C8_Witness ==
    \E c \in conns :
        /\ Dispatched(c)
        /\ ChainRan(c)
        /\ ChainResult(c).kind = "Abort"
        /\ Len(obs[c].log) = 4
        /\ obs[c].log[4].op = "modify"
        /\ IsSome(PendingHead(c))
        /\ DOMAIN Unwrap(PendingHead(c)).headers = SeededNames

\* C11: for every path, query and fragment, parse_path on the origin-form
\* string and parse_url on the absolute URL with the same path, query and
\* fragment produce the same path, the same query mapping and the same
\* fragment.
C11_ParsersAgree ==
    (target.form = "url" /\ IsSome(parsed)) =>
        LET of_url == Unwrap(parsed)
            of_path == parse_path(target.text)
        IN /\ of_url.uri = of_path.uri
           /\ of_url.query = of_path.query
           /\ of_url.fragment = of_path.fragment

\* The two parsers agree on the path and on the fragment.
C11_PathAndFragmentAgree ==
    (target.form = "url" /\ IsSome(parsed)) =>
        LET of_url == Unwrap(parsed)
            of_path == parse_path(target.text)
        IN /\ of_url.uri = of_path.uri
           /\ of_url.fragment = of_path.fragment

----------------------------------------------------------------------------
(* Claims about routing and delegation, checked under Spec *)

IsStar(c) == Dispatched(c) /\ Unwrap(obs[c].request).uri.variant = "Star"

EmptyEndpoint == Endpoint(None, Parameters_new, {})

\* The filters that ran on this dispatch, and whether one of them replaced
\* the request's URI.
RewriteRan(c) ==
    \E i \in 1..Len(ModifyEvents(c)) : config.context_filters[i].kind = "rewrite"

\* C12 as stated: for the wildcard target the parsed URI is Asterisk with
\* empty query and no fragment, find is never called, and the endpoint used
\* has no handler, no variables and no hyperlinks.
C12_StarNeverRouted ==
    \A c \in conns :
        IsStar(c) =>
            /\ obs[c].components =
                   Some(ParsedUri(None, Uri_Asterisk, Parameters_new, None))
            /\ Len(FindEvents(c)) = 0
            /\ IsSome(obs[c].endpoint) => Unwrap(obs[c].endpoint) = EmptyEndpoint

\* C12 amended: for the wildcard target the parsed URI is Asterisk with empty
\* query and no fragment; find is not called and the endpoint is the empty
\* one as long as no context filter replaced the URI by a path; after such a
\* rewrite (and a Next chain) find is called once, with the rewritten path.
C12_StarBypassesRouterUnlessRewritten ==
    \A c \in conns :
        IsStar(c) =>
            /\ obs[c].components =
                   Some(ParsedUri(None, Uri_Asterisk, Parameters_new, None))
            /\ ~RewriteRan(c) =>
                   /\ Len(FindEvents(c)) = 0
                   /\ IsSome(obs[c].endpoint) =>
                          Unwrap(obs[c].endpoint) = EmptyEndpoint
            /\ (RewriteRan(c) /\ ChainResult(c).kind = "Next") =>
                   /\ Len(FindEvents(c)) = 1
                   /\ FindEvents(c)[1].ret = <<Unwrap(obs[c].request).method,
                                               RewrittenPath>>
            /\ ChainResult(c).kind = "Abort" =>
                   /\ Len(FindEvents(c)) = 0
                   /\ IsNone(obs[c].endpoint)

\* "*" dispatched through a chain that leaves the URI alone, to a 404.
C12_Witness ==
    \E c \in conns :
        /\ IsStar(c)
        /\ Len(config.context_filters) = 1
        /\ config.context_filters[1].kind = "stash"
        /\ config.handlers # {}
        /\ obs[c].endpoint = Some(EmptyEndpoint)
        /\ Len(FindEvents(c)) = 0
        /\ ErrorStatusIs(c, StatusCode_NotFound)

StepOnRequestReadable(c) ==
    obs'[c].delivered.readable = obs[c].delivered.readable + 1

StepOnResponseWritable(c) ==
    obs'[c].delivered.writable = obs[c].delivered.writable + 1

IsErrorMethod(write_method) ==
    IsSome(write_method) /\ Unwrap(write_method).kind = "Error"

\* What a callback that only answers the transport leaves alone.
OnlyAnswers(c) ==
    /\ rh'[c] = rh[c]
    /\ obs'[c].out = obs[c].out
    /\ obs'[c].forwarded = obs[c].forwarded
    /\ obs'[c].log = obs[c].log
    /\ obs'[c].handler_ret = obs[c].handler_ret
    /\ obs'[c].fault = obs[c].fault

\* C13: on_request_readable forwards the event to the active handler and
\* returns that handler's signal when the write method is Handler; when the
\* write method is Error it leaves the write method with its pending head
\* and everything emitted unchanged, forwards nothing, and returns write.
C13_ReadableForwardsOrKeepsError ==
    [][\A c \in conns :
          StepOnRequestReadable(c) =>
              /\ IsHandler(rh[c].write_method) =>
                     /\ obs'[c].forwarded.readable = obs[c].forwarded.readable + 1
                     /\ IsSome(obs'[c].handler_ret)
                     /\ obs'[c].ret = obs'[c].handler_ret
                     /\ rh'[c] = rh[c]
              /\ IsErrorMethod(rh[c].write_method) =>
                     /\ OnlyAnswers(c)
                     /\ obs'[c].ret = Some(Next_write)]_vars

\* Two readable events arrived while a 404 head was pending: the head is
\* still there and the answer is write.
C13_Witness ==
    \E c \in conns :
        /\ obs[c].last = "on_request_readable"
        /\ obs[c].delivered.readable = 2
        /\ ErrorStatusIs(c, StatusCode_NotFound)
        /\ obs[c].ret = Some(Next_write)

\* C14: on_response_writable delegates to the handler and returns the
\* handler's signal when the write method is Handler; otherwise it forwards
\* nothing, changes no state and returns end.
C14_WritableDelegatesOrEnds ==
    [][\A c \in conns :
          StepOnResponseWritable(c) =>
              /\ IsHandler(rh[c].write_method) =>
                     /\ obs'[c].forwarded.writable = obs[c].forwarded.writable + 1
                     /\ IsSome(obs'[c].handler_ret)
                     /\ obs'[c].ret = obs'[c].handler_ret
                     /\ rh'[c] = rh[c]
              /\ ~IsHandler(rh[c].write_method) =>
                     /\ OnlyAnswers(c)
                     /\ obs'[c].ret = Some(Next_end)]_vars

\* An error head was written and the transport then asked for body bytes.
C14_Witness ==
    \E c \in conns :
        /\ obs[c].last = "on_response_writable"
        /\ IsErrorMethod(rh[c].write_method)
        /\ obs[c].delivered.response = 1
        /\ obs[c].out.status = Some(StatusCode_BadRequest)
        /\ obs[c].ret = Some(Next_end)

Instance(c) == Unwrap(Unwrap(rh[c].write_method).handler)

HeadApplied(out, head) ==
    /\ out.status = Some(head.status)
    /\ \A name \in DOMAIN head.headers :
           name \in DOMAIN out.headers /\ out.headers[name] = head.headers[name]

\* What holds of a stored instance, and of a handler without one.
InstanceServes(c) ==
        /\ IsHandler(rh[c].write_method) =>
               /\ Len(CreateEvents(c)) = 1
               /\ Len(HandlerCalls(c)) = 1
               /\ Instance(c).factory = CreateEvents(c)[1].ret
               /\ Instance(c).factory =
                      Unwrap(select_handler(Unwrap(obs[c].endpoint),
                                            config.fallback_handler))
               /\ Instance(c).context.method = Unwrap(obs[c].request).method
               /\ Instance(c).response.status = StatusCode_Ok
               /\ Instance(c).response.headers = seed_response(config).headers
               /\ IsSome(obs[c].handler_ret)
               /\ obs[c].ret = obs[c].handler_ret
               /\ obs[c].forwarded.response > 0 =>
                      /\ IsSome(obs[c].handler_head)
                      /\ HeadApplied(obs[c].out, Unwrap(obs[c].handler_head))
        /\ ~IsHandler(rh[c].write_method) =>
               /\ Len(CreateEvents(c)) = 0
               /\ Len(HandlerCalls(c)) = 0
               /\ NothingForwarded(c)

\* Once an instance is stored, each callback goes to it and it stays stored.
LaterCallbacksDelegated(c) ==
    IsHandler(rh[c].write_method) =>
        /\ rh'[c].write_method = rh[c].write_method
        /\ StepOnRequestReadable(c) =>
               obs'[c].forwarded.readable = obs[c].forwarded.readable + 1
        /\ StepOnResponse(c) =>
               obs'[c].forwarded.response = obs[c].forwarded.response + 1
        /\ StepOnResponseWritable(c) =>
               obs'[c].forwarded.writable = obs[c].forwarded.writable + 1
        /\ (StepOnRequestReadable(c) \/ StepOnResponse(c)
               \/ StepOnResponseWritable(c)) =>
                   obs'[c].ret = obs'[c].handler_ret

\* C15: when a handler is selected, exactly one instance is created from it
\* with the request's context and the seeded response, its on_request is
\* called exactly once, it is stored as the Handler write method and its
\* signal is the directive returned; every later on_request_readable,
\* on_response and on_response_writable is delegated to that instance, and
\* on_response applies the status and headers the instance returns.
C15_OneInstanceServesTheRequest ==
    /\ [](\A c \in conns : InstanceServes(c))
    /\ [][\A c \in conns : LaterCallbacksDelegated(c)]_vars

\* The fallback's instance answered 201 with its own content type after a
\* body event was passed on to it.
C15_Witness ==
    \E c \in conns :
        /\ IsHandler(rh[c].write_method)
        /\ Instance(c).factory = "fallback"
        /\ obs[c].forwarded.readable = 1
        /\ obs[c].last = "on_response"
        /\ obs[c].out.status = Some(201)
        /\ obs[c].out.headers["Content-Type"] = "application/json"
        /\ obs[c].ret = Some(Next_end)

----------------------------------------------------------------------------
(* Error recovery under a transport that follows the directives,
   checked under SpecDriven *)

IsSeed(e) == e.op = "headers.set"
Dispatches(c) == Len(SelectSeq(obs[c].log, IsSeed))

\* An error-classified request so far: one dispatch, no body event in either
\* direction, at most the one head, and the directive is write or end.
ErrorOnTrack(c) ==
    /\ obs[c].delivered.request = 1
    /\ obs[c].delivered.readable = 0
    /\ obs[c].delivered.writable = 0
    /\ obs[c].delivered.response <= 1
    /\ Dispatches(c) = 3
    /\ IsNone(obs[c].fault)
    /\ NothingForwarded(c)
    /\ obs[c].ret = IF obs[c].delivered.response = 0
                    THEN Some(Next_write) ELSE Some(Next_end)

ErrorRecovered(c) ==
    /\ ErrorOnTrack(c)
    /\ obs[c].delivered.response = 1
    /\ IsNone(PendingHead(c))
    /\ obs[c].out.status \in {Some(StatusCode_BadRequest),
                              Some(StatusCode_NotFound), Some(401), Some(403)}
    /\ obs[c].ret = Some(Next_end)

SomeErrorClassified == \E c \in conns : IsError(c)
EveryErrorRecovered == \A c \in conns : IsError(c) => ErrorRecovered(c)

\* C16: a request classified as malformed target, filter rejection or no
\* route is recovered locally: when the transport delivers what each
\* directive asks for, the connection eventually ends after exactly one
\* on_request and exactly one on_response, with no dispatch repeated and no
\* readable or writable event in between.
C16_ErrorsEndAfterOneResponse ==
    SomeErrorClassified ~> EveryErrorRecovered

\* A filter's 403 went out and the connection ended.
C16_Witness ==
    \E c \in conns :
        /\ IsError(c)
        /\ ErrorRecovered(c)
        /\ ChainRan(c)
        /\ ChainResult(c) = ContextAction_Abort(403)
        /\ obs[c].out.status = Some(403)

----------------------------------------------------------------------------
(* Scoped storage *)

\* What the filters at positions below i have stored, from the chain alone.
StashedBefore(filters, i) ==
    {k \in 1..(i - 1) : filters[k].kind = "stash"}

\* C17: what a context filter stores is visible to every later filter of
\* the same chain, and when the chain ends with Next the storage of the
\* response handed to the handler is the storage as the last context filter
\* left it.
C17_StorageSharedAlongChain ==
    \A c \in conns :
        ChainRan(c) =>
            /\ \A i \in 1..Len(ModifyEvents(c)) :
                   /\ ModifyEvents(c)[i].n = i
                   /\ ModifyEvents(c)[i].seen =
                          StashedBefore(config.context_filters, i)
            /\ IsHandler(rh[c].write_method) =>
                   /\ Len(ModifyEvents(c)) = Len(config.context_filters)
                   /\ Instance(c).response.storage =
                          StashedBefore(config.context_filters,
                                        Len(config.context_filters) + 1)
                   /\ CreateEvents(c)[1].seen = Instance(c).response.storage

\* A stash filter ran before a guard, the guard let the request pass because
\* of what it found, and the handler's response carries the stashed entry.
C17_Witness ==
    \E c \in conns :
        /\ Len(config.context_filters) = 2
        /\ config.context_filters[1].kind = "stash"
        /\ config.context_filters[2].kind = "guard"
        /\ IsHandler(rh[c].write_method)
        /\ ModifyEvents(c)[2].seen = {1}
        /\ Instance(c).response.storage = {1}

----------------------------------------------------------------------------
(* Several connections of one server, checked under SpecConns *)

\* C18: the storage is created empty per request and never shared: in any
\* interleaving of requests on several connections the first context filter
\* of every request sees an empty storage, and every filter and the handler
\* of a request see only what the filters of that same request stored.
C18_StorageIsPerRequest ==
    \A c \in conns :
        Dispatched(c) =>
            /\ \A i \in 1..Len(ModifyEvents(c)) :
                   /\ i = 1 => ModifyEvents(c)[i].seen = {}
                   /\ ModifyEvents(c)[i].seen =
                          StashedBefore(config.context_filters, i)
            /\ \A i \in 1..Len(ModifyEvents(c)) :
                   ModifyEvents(c)[i].ret =
                       IF Aborts(config.context_filters, i)
                       THEN ContextAction_Abort(config.context_filters[i].status)
                       ELSE ContextAction_Next
            /\ IsHandler(rh[c].write_method) =>
                   Instance(c).response.storage =
                       StashedBefore(config.context_filters,
                                     Len(config.context_filters) + 1)

\* Two connections each ran the chain "stash, guard" to their handler: the
\* first filter of each found the storage empty although the other request
\* had stored something, and each handler got its own request's entry.
C18_Witness ==
    /\ Len(config.context_filters) = 2
    /\ config.context_filters[1].kind = "stash"
    /\ config.context_filters[2].kind = "guard"
    /\ \E c \in conns, d \in conns :
           /\ c # d
           /\ IsHandler(rh[c].write_method) /\ IsHandler(rh[d].write_method)
           /\ ModifyEvents(c)[1].seen = {}
           /\ ModifyEvents(d)[1].seen = {}
           /\ Instance(c).response.storage = {1}
           /\ Instance(d).response.storage = {1}

----------------------------------------------------------------------------
(* Filters before routing, checked under Spec *)

\* The URI of the context after the filters that ran, from the parsed
\* components and the chain alone.
PostFilterUri(c) ==
    IF RewriteRan(c) THEN Uri_Path(RewrittenPath)
    ELSE Unwrap(obs[c].components).uri

ModifyBeforeFind(c) ==
    \A i \in 1..Len(obs[c].log), j \in 1..Len(obs[c].log) :
        (obs[c].log[i].op = "modify" /\ obs[c].log[j].op = "find") => i < j

\* C20: find is called at most once per request, only after every context
\* filter has returned Next, with the method and the path of the context as
\* the chain left it; the router is bypassed exactly when that post-filter
\* URI is not a path.
C20_RoutingSeesFilterRewrites ==
    \A c \in conns :
        Dispatched(c) =>
            /\ Len(FindEvents(c)) <= 1
            /\ ModifyBeforeFind(c)
            /\ Len(FindEvents(c)) = 1 =>
                   /\ ChainRan(c)
                   /\ ChainResult(c).kind = "Next"
                   /\ Len(ModifyEvents(c)) = Len(config.context_filters)
                   /\ \A i \in 1..Len(ModifyEvents(c)) :
                          ~Aborts(config.context_filters, i)
                   /\ FindEvents(c)[1].ret =
                          <<Unwrap(obs[c].request).method,
                            Unwrap(as_path(PostFilterUri(c)))>>
            /\ (ChainRan(c) /\ ChainResult(c).kind = "Next") =>
                   (Len(FindEvents(c)) = 1 <=> IsSome(as_path(PostFilterUri(c))))
            /\ (~ChainRan(c) \/ ChainResult(c).kind = "Abort") =>
                   Len(FindEvents(c)) = 0

\* GET /a through a chain whose second filter rewrites the URI: the router
\* was asked for /b, not for /a, and its handler serves the request.
C20_Witness ==
    \E c \in conns :
        /\ Dispatched(c)
        /\ obs[c].components =
               Some(ParsedUri(None, Uri_Path(<<SLASH, 97>>), Parameters_new, None))
        /\ Len(config.context_filters) = 2
        /\ config.context_filters[2].kind = "rewrite"
        /\ Len(FindEvents(c)) = 1
        /\ FindEvents(c)[1].ret = <<"GET", RewrittenPath>>
        /\ IsHandler(rh[c].write_method)
        /\ Instance(c).factory = "h_b"

----------------------------------------------------------------------------
(* The handler's two slots, checked under Spec *)

ControlIffNoWriteMethod(c) ==
    IsSome(rh[c].control) <=> IsNone(rh[c].write_method)

\* A stored write method stays stored and stays Handler or stays Error.
WriteMethodKept(c) ==
    IsSome(rh[c].write_method) =>
        /\ IsSome(rh'[c].write_method)
        /\ Unwrap(rh'[c].write_method).kind = Unwrap(rh[c].write_method).kind
        /\ IsNone(rh'[c].control)

\* C21: the control handle is present exactly when no write method is
\* stored, which is the case only before the first on_request; once a write
\* method is stored it is never cleared and never changes between Handler
\* and Error.
C21_ControlOrWriteMethod ==
    /\ [](\A c \in conns :
              /\ ControlIffNoWriteMethod(c)
              /\ IsSome(rh[c].control) <=> obs[c].delivered.request = 0)
    /\ [][\A c \in conns : WriteMethodKept(c)]_vars

\* An error head was stored, written and asked for again: the write method
\* is still there, still Error, and the control handle is gone.
C21_Witness ==
    \E c \in conns :
        /\ obs[c].delivered.request = 1
        /\ obs[c].delivered.response = 2
        /\ obs[c].fault = Some("missing response head")
        /\ IsErrorMethod(rh[c].write_method)
        /\ IsNone(rh[c].control)

EmptyOut == [status |-> None, headers |-> Headers_new]

\* C22: before on_request has run, on_response is fatal (missing write
\* method) and sets no status or headers, on_request_readable returns write
\* and on_response_writable returns end, both without a fault and without
\* changing the handler, so that the first on_request still dispatches.
C22_EventsBeforeDispatch ==
    \A c \in conns :
        /\ obs[c].delivered.request = 0 =>
               /\ rh[c] = RequestHandler_new(c)
               /\ obs[c].out = EmptyOut
               /\ obs[c].log = <<>>
               /\ NothingForwarded(c)
               /\ obs[c].delivered.response > 0 <=>
                      obs[c].fault = Some("missing write method")
               /\ obs[c].delivered.response > 0 =>
                      /\ obs[c].last = "on_response"
                      /\ obs[c].delivered.response = 1
               /\ obs[c].last = "on_request_readable" =>
                      /\ obs[c].ret = Some(Next_write)
                      /\ IsNone(obs[c].fault)
               /\ obs[c].last = "on_response_writable" =>
                      /\ obs[c].ret = Some(Next_end)
                      /\ IsNone(obs[c].fault)
        /\ (obs[c].delivered.request = 1 /\ IsNone(obs[c].fault)) =>
               /\ IsSome(rh[c].write_method)
               /\ Dispatches(c) = 3

\* A readable and a writable event came before the request; on_request then
\* dispatched to a handler as if nothing had happened.
C22_Witness ==
    \E c \in conns :
        /\ obs[c].delivered = [request |-> 1, readable |-> 1,
                               response |-> 0, writable |-> 1]
        /\ obs[c].last = "on_request"
        /\ NothingForwarded(c)
        /\ IsHandler(rh[c].write_method)
        /\ IsNone(obs[c].fault)

\* on_response came first: the fault, and nothing written.
C22_WitnessFatal ==
    \E c \in conns :
        /\ obs[c].delivered.request = 0
        /\ obs[c].last = "on_response"
        /\ obs[c].fault = Some("missing write method")
        /\ obs[c].out = EmptyOut

====
